---------------------------- MODULE Spec2Model ----------------------------
(***************************************************************************)
(* Port Lookahead Dashboard (src/app.py): one run of the script, from the  *)
(* uploaded sheet to the classified subsets, the KPIs, the per-berth        *)
(* occupancy table and the cumulative deadweight series.                    *)
(*                                                                          *)
(* Time is counted in ticks.  A day has TicksPerDay ticks; a tick is a      *)
(* sub-second instant, SubTicks of them per whole second, so that           *)
(* datetime.max.time() (23:59:59.999999) is the last tick of a day and a    *)
(* text time cell, which loses its fractional part, can only name the       *)
(* first tick of a second.                                                  *)
(* Deadweight is counted in units of 1/DwtUnit, so that int() of a sum is a *)
(* truncation and not the identity.                                         *)
(* DockingTime / EstDockingTime are carried by the script only into tables *)
(* and a mean; they take no part in any selection and are left out.         *)
(***************************************************************************)
EXTENDS Integers, Sequences, FiniteSets, TLC

\* ---- bounds of the model ----
MaxDay == 3          \* dates are 0 .. MaxDay-1
SecsPerDay == 1      \* whole seconds in a day
SubTicks == 2        \* sub-second instants per second
MaxRows == 2         \* rows of the sheet
MaxDwt == 1          \* deadweight cells are -MaxDwt .. MaxDwt, in 1/DwtUnit
DwtUnit == 2         \* model units per 1.0 of deadweight

TicksPerDay == SecsPerDay * SubTicks
Days == 0 .. (MaxDay - 1)

\* pd.isna(): the missing timestamp, the missing number, the missing text
NaT == -1
NaN == -999
None == "None"

\* ---- cells of the sheet ----
\* a date cell: missing, a Timestamp/datetime, a parseable text, any other text
NaCell == [kind |-> "na", v |-> 0]
BadCell == [kind |-> "bad", v |-> 0]
TsCell(x) == [kind |-> "ts", v |-> x]
TxtCell(x) == [kind |-> "txt", v |-> x]

\* pd.isna(cell)
isna(cell) == cell.kind = "na"

\* datetime.min.time() and datetime.max.time(), as ticks within the day
min_time == 0
max_time == TicksPerDay - 1

\* datetime.combine(date_part, time_part)
combine(date_part, time_part) == date_part * TicksPerDay + time_part

\* ---------- Helper: parse date/time ----------
\* try_get_col(df, candidates): the first candidate that is a column, or None
RECURSIVE try_get_col(_, _)
try_get_col(columns, candidates) ==
    IF candidates = <<>> THEN None
    ELSE IF Head(candidates) \in columns THEN Head(candidates)
    ELSE try_get_col(columns, Tail(candidates))

\* time_str.split('.')[0] followed by the %H:%M:%S parse: a text cell written
\* for tick x names the whole second below it
time_of_text(x) == (x \div SubTicks) * SubTicks

\* parse_datetime_from_row that tests only the date cell for a missing value
\* and reads a missing time cell as midnight
parse_missing_time_as_midnight(date_val, time_val) ==
    IF isna(date_val) THEN NaT
    ELSE IF date_val.kind = "bad" \/ time_val.kind = "bad" THEN NaT
    ELSE LET date_part == date_val.v
             time_part == IF isna(time_val) THEN 0
                          ELSE IF time_val.kind = "ts" THEN time_val.v
                          ELSE (time_val.v \div SubTicks) * SubTicks
         IN  date_part * TicksPerDay + time_part

\* parse_datetime_from_row: NaT stands for the None it returns
parse_datetime_from_row(date_val, time_val) ==
    IF isna(date_val) \/ isna(time_val) THEN NaT
    ELSE IF date_val.kind = "bad" \/ time_val.kind = "bad" THEN NaT
    ELSE LET date_part == date_val.v
             time_part == IF time_val.kind = "ts" THEN time_val.v
                          ELSE time_of_text(time_val.v)
         IN  combine(date_part, time_part)

\* ---- column synonyms (lines 104-112) ----
ShipNames == <<"SHIP", "Ship", "ship", "Buque", "BUQUE", "NOMBRE", "Vessel">>
ArrDayNames == <<"Arrival day", "ArrivalDay", "arrivalDay", "Arrival_day", "ETA date", "Arrival date">>
ArrTimeNames == <<"Arrival time", "arrivalTime", "ArrivalTime", "ETA time", "ETA">>
DepDayNames == <<"Departure day", "DepartureDay", "depDay", "Departure_day", "ETD date", "Departure date">>
DepTimeNames == <<"Departure time", "departureTime", "ETD time", "ETD", "Departure_time">>
BerthNames == <<"Arrival", "Berth", "Pier", "Muelle", "muelle", "BERTH", "Terminal">>
DwtNames == <<"DWT", "dwt", "Deadweight", "DeadWeight">>

VARIABLES
    pc,            \* the statement the script is about to run
    uploaded,      \* the uploaded file (st.file_uploader)
    df,            \* pd.read_excel(uploaded): [columns, rows]
    current_dt, end_dt,
    cols,          \* col_ship, col_arr_day, ... as detected
    proc, proc_valid,
    arriving, departing, in_port,
    kpi,           \* the counts and DWT captions of the KPI row
    occ,           \* the per-berth table
    initial_dwt, dwt_timeline,
    dwt_df,        \* dwt_timeline sorted by Date (line 404)
    dwt_plot,
    defined,       \* names the script has bound so far
    stopped_at,    \* the check whose st.stop() ended the run, "" if none
    lk             \* the names of the standalone script (src/lookahead_buques.py)

vars == <<pc, uploaded, df, current_dt, end_dt, cols, proc, proc_valid,
          arriving, departing, in_port, kpi, occ, initial_dwt, dwt_timeline,
          dwt_df, dwt_plot, defined, stopped_at, lk>>

\* ---- generic helpers over sequences ----
Range(s) == {s[i] : i \in DOMAIN s}

RECURSIVE SumDWT(_)
\* Series.sum() of the DWT column: NaN is skipped
SumDWT(frame) ==
    IF frame = <<>> THEN 0
    ELSE (IF Head(frame).DWT = NaN THEN 0 ELSE Head(frame).DWT) + SumDWT(Tail(frame))

\* Series.isna().all() of the DWT column (True on an empty frame)
AllDWTNa(frame) == \A i \in DOMAIN frame : frame[i].DWT = NaN

\* rounding down instead of toward zero
int_floor(x) == x \div DwtUnit

\* int(x): truncation toward zero of a deadweight given in 1/DwtUnit
int(x) == IF x >= 0 THEN x \div DwtUnit ELSE -((-x) \div DwtUnit)

\* ---- the state after the script's imports and helper definitions ----
\* the standalone script before it has run, with its two settings (lines 9, 12)
NoLookahead(h, iv) ==
    [df |-> <<>>, lookahead_h |-> h, intervalo_h |-> iv, timeline |-> <<>>,
     k |-> 0, t |-> 0, fin_ventana |-> 0, activos |-> <<>>, resultados |-> <<>>]
NoCols == [ship |-> None, arr_day |-> None, arr_time |-> None, dep_day |-> None,
           dep_time |-> None, berth |-> None, dwt |-> None]
NoKpi == [arrivals |-> 0, dwt_arr |-> 0, in_port |-> 0, dwt_port |-> 0,
          departures |-> 0, dwt_dep |-> 0, total_operations |-> 0]

InitOver(files) ==
    /\ pc = "upload"
    /\ uploaded \in files
    /\ df = [columns |-> {}, rows |-> <<>>]
    /\ current_dt = 0
    /\ end_dt = 0
    /\ cols = NoCols
    /\ proc = <<>>
    /\ proc_valid = <<>>
    /\ arriving = <<>>
    /\ departing = <<>>
    /\ in_port = <<>>
    /\ kpi = NoKpi
    /\ occ = <<>>
    /\ initial_dwt = 0
    /\ dwt_timeline = <<>>
    /\ dwt_df = <<>>
    /\ dwt_plot = <<>>
    /\ defined = {}
    /\ stopped_at = ""
    /\ lk = NoLookahead(0, 1)

\* st.stop(): nothing runs after it
Stop(at) ==
    /\ pc' = "stopped"
    /\ stopped_at' = at

\* lines 66-70: no file in the uploader
Upload ==
    /\ pc = "upload"
    /\ IF ~uploaded.present
       THEN Stop("no_file")
       ELSE pc' = "read" /\ UNCHANGED stopped_at
    /\ UNCHANGED <<uploaded, df, current_dt, end_dt, cols, proc, proc_valid,
                   arriving, departing, in_port, kpi, occ, initial_dwt,
                   dwt_timeline, dwt_df, dwt_plot, defined>>
    /\ UNCHANGED lk

\* lines 72-77: pd.read_excel, any exception stops the run
ReadExcel ==
    /\ pc = "read"
    /\ IF uploaded.readable
       THEN /\ df' = [columns |-> uploaded.columns, rows |-> uploaded.rows]
            /\ defined' = defined \cup {"df"}
            /\ pc' = "config"
            /\ UNCHANGED stopped_at
       ELSE /\ Stop("read_error")
            /\ UNCHANGED <<df, defined>>
    /\ UNCHANGED <<uploaded, current_dt, end_dt, cols, proc, proc_valid,
                   arriving, departing, in_port, kpi, occ, initial_dwt,
                   dwt_timeline, dwt_df, dwt_plot>>
    /\ UNCHANGED lk

\* lines 82-95: the two date inputs and the window check
Configure ==
    /\ pc = "config"
    /\ \E start_date \in Days, end_date \in Days :
         /\ current_dt' = combine(start_date, min_time)
         /\ end_dt' = combine(end_date, max_time)
    /\ defined' = defined \cup {"current_dt", "end_dt"}
    /\ IF end_dt' <= current_dt'
       THEN Stop("bad_window")
       ELSE pc' = "columns" /\ UNCHANGED stopped_at
    /\ UNCHANGED <<uploaded, df, cols, proc, proc_valid, arriving, departing,
                   in_port, kpi, occ, initial_dwt, dwt_timeline, dwt_df, dwt_plot>>
    /\ UNCHANGED lk

\* the critical-columns check without its last test
missing_without_dep_time(c) ==
    {f \in {"ship", "arr_day", "arr_time", "dep_day"} : c[f] = None}

\* lines 115-120: the names of the critical fields that matched no column
missing(c) ==
    {f \in {"ship", "arr_day", "arr_time", "dep_day", "dep_time"} : c[f] = None}

\* lines 104-125: column detection and the critical-columns check
DetectColumns ==
    /\ pc = "columns"
    /\ cols' = [ship |-> try_get_col(df.columns, ShipNames),
                arr_day |-> try_get_col(df.columns, ArrDayNames),
                arr_time |-> try_get_col(df.columns, ArrTimeNames),
                dep_day |-> try_get_col(df.columns, DepDayNames),
                dep_time |-> try_get_col(df.columns, DepTimeNames),
                berth |-> try_get_col(df.columns, BerthNames),
                dwt |-> try_get_col(df.columns, DwtNames)]
    /\ defined' = defined \cup {"cols"}
    /\ IF missing(cols') # {}
       THEN Stop("missing_columns")
       ELSE pc' = "process" /\ UNCHANGED stopped_at
    /\ UNCHANGED <<uploaded, df, current_dt, end_dt, proc, proc_valid, arriving,
                   departing, in_port, kpi, occ, initial_dwt, dwt_timeline, dwt_df,
                   dwt_plot>>
    /\ UNCHANGED lk

\* lines 137-156: what one row of the sheet appends to the seven lists
proc_row(i, row, c) ==
    [idx |-> i,
     SHIP |-> row.ship,
     arrival_dt |-> parse_datetime_from_row(row.arr_day, row.arr_time),
     departure_dt |-> parse_datetime_from_row(row.dep_day, row.dep_time),
     Berth |-> IF c.berth # None THEN row.berth ELSE None,
     DWT |-> IF c.dwt # None THEN row.dwt ELSE NaN]

\* line 168: proc.dropna(subset=["arrival_dt","departure_dt"])
dropna(frame) ==
    SelectSeq(frame, LAMBDA r : r.arrival_dt # NaT /\ r.departure_dt # NaT)

\* lines 128-172: the row loop, the frame, dropna and the empty check
ProcessData ==
    /\ pc = "process"
    /\ proc' = [i \in DOMAIN df.rows |-> proc_row(i, df.rows[i], cols)]
    /\ proc_valid' = dropna(proc')
    /\ defined' = defined \cup {"proc", "proc_valid"}
    /\ IF proc_valid' = <<>>
       THEN Stop("no_valid_data")
       ELSE pc' = "classify" /\ UNCHANGED stopped_at
    /\ UNCHANGED <<uploaded, df, current_dt, end_dt, cols, arriving, departing,
                   in_port, kpi, occ, initial_dwt, dwt_timeline, dwt_df, dwt_plot>>
    /\ UNCHANGED lk

\* datetime comparisons of pandas: any comparison with NaT is False
lt(a, b) == a # NaT /\ b # NaT /\ a < b
le(a, b) == a # NaT /\ b # NaT /\ a <= b

\* Arriving with an exclusive upper bound
arriving_exclusive(frame, s, e) ==
    SelectSeq(frame, LAMBDA r : le(s, r.arrival_dt) /\ lt(r.arrival_dt, e))
\* line 175
arriving_of(frame, s, e) ==
    SelectSeq(frame, LAMBDA r : le(s, r.arrival_dt) /\ le(r.arrival_dt, e))
\* line 176
departing_of(frame, s, e) ==
    SelectSeq(frame, LAMBDA r : le(s, r.departure_dt) /\ le(r.departure_dt, e))
\* In-Port with the inclusive overlap test
in_port_inclusive(frame, s, e) ==
    SelectSeq(frame, LAMBDA r : le(r.arrival_dt, e) /\ le(s, r.departure_dt))
\* line 177
in_port_of(frame, s, e) ==
    SelectSeq(frame, LAMBDA r : lt(r.arrival_dt, e) /\ lt(s, r.departure_dt))

\* lines 175-177
Classify ==
    /\ pc = "classify"
    /\ arriving' = arriving_of(proc_valid, current_dt, end_dt)
    /\ departing' = departing_of(proc_valid, current_dt, end_dt)
    /\ in_port' = in_port_of(proc_valid, current_dt, end_dt)
    /\ defined' = defined \cup {"arriving", "departing", "in_port"}
    /\ pc' = "kpis"
    /\ UNCHANGED <<uploaded, df, current_dt, end_dt, cols, proc, proc_valid, kpi,
                   occ, initial_dwt, dwt_timeline, dwt_df, dwt_plot, stopped_at>>
    /\ UNCHANGED lk

\* lines 185, 190, 195: the DWT caption of one subset
dwt_caption(frame) ==
    IF ~AllDWTNa(frame) /\ Len(frame) > 0 THEN int(SumDWT(frame)) ELSE 0

\* lines 183-201
KPIs ==
    /\ pc = "kpis"
    /\ kpi' = [arrivals |-> Len(arriving), dwt_arr |-> dwt_caption(arriving),
               in_port |-> Len(in_port), dwt_port |-> dwt_caption(in_port),
               departures |-> Len(departing), dwt_dep |-> dwt_caption(departing),
               total_operations |-> Len(arriving) + Len(departing)]
    /\ defined' = defined \cup {"kpi"}
    /\ pc' = "berth"
    /\ UNCHANGED <<uploaded, df, current_dt, end_dt, cols, proc, proc_valid,
                   arriving, departing, in_port, occ, initial_dwt, dwt_timeline, dwt_df,
                   dwt_plot, stopped_at>>
    /\ UNCHANGED lk

\* lines 327-331: groupby("Berth") drops the rows whose key is missing; "count"
\* counts the non-missing SHIP cells; "sum" skips NaN
groupby_berth(frame) ==
    LET keys == {r.Berth : r \in Range(frame)} \ {None}
        grp(b) == SelectSeq(frame, LAMBDA r : r.Berth = b)
    IN  [b \in keys |->
           [Vessels |-> Len(SelectSeq(grp(b), LAMBDA r : r.SHIP # None)),
            TotalDWT |-> SumDWT(grp(b))]]

\* lines 321-337
BerthOccupancy ==
    /\ pc = "berth"
    /\ IF in_port = <<>>
       THEN UNCHANGED <<occ, defined>>
       ELSE /\ occ' = groupby_berth(in_port)
            /\ defined' = defined \cup {"occ"}
    /\ pc' = "dwt"
    /\ UNCHANGED <<uploaded, df, current_dt, end_dt, cols, proc, proc_valid,
                   arriving, departing, in_port, kpi, initial_dwt, dwt_timeline, dwt_df,
                   dwt_plot, stopped_at>>
    /\ UNCHANGED lk

\* initial_dwt that counts a vessel arriving exactly at current_dt
initial_dwt_inclusive(frame, s) ==
    SumDWT(SelectSeq(frame, LAMBDA r : le(r.arrival_dt, s) /\ lt(s, r.departure_dt)))

\* lines 377-380: the rows already in port at current_dt; fillna(0).sum()
initial_dwt_of(frame, s) ==
    SumDWT(SelectSeq(frame, LAMBDA r : lt(r.arrival_dt, s) /\ lt(s, r.departure_dt)))

\* the events of one row with the second test as an elif of the first
row_events_elif(r, s, e) ==
    IF r.DWT # NaN
    THEN IF le(s, r.arrival_dt) /\ le(r.arrival_dt, e)
         THEN <<[Date |-> r.arrival_dt, DWT |-> r.DWT, Type |-> "Arrival",
                 Vessel |-> r.SHIP, row |-> r.idx]>>
         ELSE IF le(s, r.departure_dt) /\ le(r.departure_dt, e)
         THEN <<[Date |-> r.departure_dt, DWT |-> r.DWT, Type |-> "Departure",
                 Vessel |-> r.SHIP, row |-> r.idx]>>
         ELSE <<>>
    ELSE <<>>

\* lines 386-400: the events one row appends to dwt_timeline
\* (row is the index label of the record, the `_` of iterrows(); the script
\* keeps the ship name only)
row_events(r, s, e) ==
    IF r.DWT # NaN
    THEN (IF le(s, r.arrival_dt) /\ le(r.arrival_dt, e)
          THEN <<[Date |-> r.arrival_dt, DWT |-> r.DWT, Type |-> "Arrival",
                  Vessel |-> r.SHIP, row |-> r.idx]>>
          ELSE <<>>)
         \o
         (IF le(s, r.departure_dt) /\ le(r.departure_dt, e)
          THEN <<[Date |-> r.departure_dt, DWT |-> r.DWT, Type |-> "Departure",
                  Vessel |-> r.SHIP, row |-> r.idx]>>
          ELSE <<>>)
    ELSE <<>>

RECURSIVE dwt_timeline_of(_, _, _)
\* lines 383-400: the loop over proc_valid.iterrows()
dwt_timeline_of(frame, s, e) ==
    IF frame = <<>> THEN <<>>
    ELSE row_events(Head(frame), s, e) \o dwt_timeline_of(Tail(frame), s, e)

RECURSIVE sort_values(_, _)
\* line 404: sort_values("Date"), the default quicksort: every order of the
\* events (given by their positions, I) that is non-decreasing in Date
sort_values(events, I) ==
    IF I = {} THEN {<<>>}
    ELSE LET first == {i \in I : \A j \in I : events[i].Date <= events[j].Date}
         IN  UNION {{<<events[i]>> \o rest : rest \in sort_values(events, I \ {i})} :
                    i \in first}

\* the change of an event without the sign of a departure
DWT_Change_unsigned(ev) == ev.DWT

\* lines 407-410
DWT_Change(ev) == IF ev.Type = "Arrival" THEN ev.DWT ELSE -ev.DWT

RECURSIVE cumsum(_, _)
\* line 411: initial_dwt + DWT_Change.cumsum(), as the points of the series
cumsum(events, acc) ==
    IF events = <<>> THEN <<>>
    ELSE LET v == acc + DWT_Change(Head(events))
         IN  <<[Date |-> Head(events).Date, DWT_in_Port |-> v,
                Type |-> Head(events).Type]>> \o cumsum(Tail(events), v)

\* lines 402-426: the series that is charted, for one sorted order of the events
dwt_plot_of(events, sorted, init, s, e) ==
    IF events # <<>>
    THEN <<[Date |-> s, DWT_in_Port |-> init, Type |-> "Initial"]>>
         \o cumsum(sorted, init)
    ELSE <<[Date |-> s, DWT_in_Port |-> init, Type |-> "Initial"],
           [Date |-> e, DWT_in_Port |-> init, Type |-> "Final"]>>

\* the test of line 402 with >= for >
has_dwt_data_nonneg(events, init) == events # <<>> \/ init >= 0

\* line 402: is there anything to chart
has_dwt_data(events, init) == events # <<>> \/ init > 0

\* lines 373-458
DwtAnalysis ==
    /\ pc = "dwt"
    /\ initial_dwt' = initial_dwt_of(proc_valid, current_dt)
    /\ dwt_timeline' = dwt_timeline_of(proc_valid, current_dt, end_dt)
    /\ IF has_dwt_data(dwt_timeline', initial_dwt')
       THEN /\ dwt_df' \in sort_values(dwt_timeline', DOMAIN dwt_timeline')
            /\ dwt_plot' = dwt_plot_of(dwt_timeline', dwt_df', initial_dwt',
                                       current_dt, end_dt)
            /\ defined' = defined \cup {"initial_dwt", "dwt_timeline", "dwt_plot"}
       ELSE /\ UNCHANGED <<dwt_df, dwt_plot>>
            /\ defined' = defined \cup {"initial_dwt", "dwt_timeline"}
    /\ pc' = "done"
    /\ UNCHANGED <<uploaded, df, current_dt, end_dt, cols, proc, proc_valid,
                   arriving, departing, in_port, kpi, occ, stopped_at>>
    /\ UNCHANGED lk

Next ==
    \/ Upload
    \/ ReadExcel
    \/ Configure
    \/ DetectColumns
    \/ ProcessData
    \/ Classify
    \/ KPIs
    \/ BerthOccupancy
    \/ DwtAnalysis

\* ---- the sheets the runs are checked on ----
FullHeaders == {"SHIP", "Arrival day", "Arrival time", "Departure day",
                "Departure time", "Berth", "DWT"}
\* the same sheet under other recognised names, and with the optional columns absent
SynonymHeaders == {"Vessel", "ETA date", "ETA", "ETD date", "ETD"}
\* sheets that lack one or more of the critical columns
LackingHeaders ==
    {FullHeaders \ {h} : h \in {"SHIP", "Arrival day", "Arrival time",
                                 "Departure day", "Departure time"}}
    \cup {{"Berth", "DWT"}, {}}

TimesOfDay == 0 .. (TicksPerDay - 1)
DwtCells == {NaN} \cup ((-MaxDwt) .. MaxDwt)

\* date and time cells holding Timestamps, and the missing cell
StructDates == {TsCell(d) : d \in Days} \cup {NaCell}
StructTimes == {TsCell(t) : t \in TimesOfDay}
\* every kind of cell
AllDates == {TsCell(d) : d \in Days} \cup {TxtCell(d) : d \in Days} \cup {NaCell, BadCell}
AllTimes == {TsCell(t) : t \in TimesOfDay} \cup {TxtCell(t) : t \in TimesOfDay}
            \cup {NaCell, BadCell}

\* a date cell and a time cell; a missing date is paired with one time only
CellPairs(dates, times) ==
    {p \in dates \X times : p[1].kind \in {"na", "bad"} => p[2] = CHOOSE t \in times : TRUE}

Rows(pairs, ships, berths, dwts) ==
    {[ship |-> sh, arr_day |-> a[1], arr_time |-> a[2], dep_day |-> d[1],
      dep_time |-> d[2], berth |-> b, dwt |-> w] :
        sh \in ships, a \in pairs, d \in pairs, b \in berths, w \in dwts}

Sheets(rows, n) == UNION {[1 .. k -> rows] : k \in 0 .. n}

NoFile == [present |-> FALSE, readable |-> FALSE, columns |-> {}, rows |-> <<>>]
Unreadable == [present |-> TRUE, readable |-> FALSE, columns |-> {}, rows |-> <<>>]
File(columns, rows) ==
    [present |-> TRUE, readable |-> TRUE, columns |-> columns, rows |-> rows]

\* one fully valid row, for the sheets whose interest is in their headers
PlainRow ==
    [ship |-> "V1", arr_day |-> TsCell(0), arr_time |-> TsCell(0),
     dep_day |-> TsCell(0), dep_time |-> TsCell(1), berth |-> "A", dwt |-> 1]

HeaderFiles ==
    {NoFile, Unreadable}
    \cup {File(h, <<PlainRow>>) : h \in LackingHeaders \cup {SynonymHeaders}}

\* sheets of Timestamp cells with every deadweight: the window, the subsets,
\* the KPIs and the deadweight series
WindowFiles ==
    {File(FullHeaders, rows) :
        rows \in Sheets(Rows(CellPairs(StructDates, StructTimes), {"V1"}, {"A"}, DwtCells),
                        MaxRows)}

\* two rows of text cells at the start of each day, Timestamps at the last
\* instant of each day, a missing date and an unparseable time; and one row of
\* every kind of cell in every combination
ParsePairs ==
    {<<TxtCell(d), TxtCell(min_time)>> : d \in Days}
    \cup {<<TsCell(d), TsCell(max_time)>> : d \in Days}
    \cup {<<NaCell, TxtCell(min_time)>>, <<TxtCell(0), BadCell>>}
ParseFiles ==
    {File(FullHeaders, rows) :
        rows \in Sheets(Rows(ParsePairs, {"V1"}, {"A"}, {1}), MaxRows)}
    \cup {File(FullHeaders, <<r>>) :
            r \in Rows(AllDates \X AllTimes, {"V1"}, {"A"}, {1})}

\* sheets with missing ship names, berths and deadweights, at midnight of each day
BerthFiles ==
    {File(FullHeaders, rows) :
        rows \in Sheets(Rows({<<TsCell(d), TsCell(min_time)>> : d \in Days},
                             {"V1", None}, {"A", "B", None}, {NaN, 1}),
                        MaxRows)}

Init == InitOver(HeaderFiles \cup WindowFiles)
Spec == Init /\ [][Next]_vars

InitParse == InitOver(HeaderFiles \cup ParseFiles)
SpecParse == InitParse /\ [][Next]_vars

InitBerth == InitOver(HeaderFiles \cup BerthFiles)
SpecBerth == InitBerth /\ [][Next]_vars

\* ---------------------------------------------------------------------
\* The standalone script, src/lookahead_buques.py
\* ---------------------------------------------------------------------
MaxLookahead == 2    \* lookahead_h is 0 .. MaxLookahead ticks
MaxInterval == 2     \* intervalo_h is 1 .. MaxInterval ticks

\* the names of the dashboard, which the standalone script never touches
dashboard_vars == <<df, current_dt, end_dt, cols, proc, proc_valid, arriving,
                    departing, in_port, kpi, occ, initial_dwt, dwt_timeline,
                    dwt_df, dwt_plot, defined, stopped_at>>

\* lines 19-20: pd.to_datetime(day.astype(str) + " " + time.astype(str)); the
\* text is parsed whole, a fractional second is kept; NaT stands for the
\* exception a missing or unparseable cell raises
to_datetime(date_val, time_val) ==
    IF date_val.kind \in {"na", "bad"} \/ time_val.kind \in {"na", "bad"} THEN NaT
    ELSE combine(date_val.v, time_val.v)

\* the columns lines 19-26 read by name
LookaheadColumns == {"SHIP", "Arrival day", "Arrival time", "Departure day",
                     "Departure time", "Arrival"}

\* lines 16-23: one row of df with its arrival, departure and Muelle columns
lookahead_row(i, row) ==
    [idx |-> i, SHIP |-> row.ship, Muelle |-> row.berth,
     arrival |-> to_datetime(row.arr_day, row.arr_time),
     departure |-> to_datetime(row.dep_day, row.dep_time)]

\* lines 15-26: any exception ends the script
LookaheadRead ==
    /\ pc = "lk_read"
    /\ LET rows == [i \in DOMAIN uploaded.rows |-> lookahead_row(i, uploaded.rows[i])]
           raises == \/ ~uploaded.present \/ ~uploaded.readable
                     \/ ~(LookaheadColumns \subseteq uploaded.columns)
                     \/ \E i \in DOMAIN rows :
                           rows[i].arrival = NaT \/ rows[i].departure = NaT
       IN  IF raises
           THEN pc' = "lk_crashed" /\ UNCHANGED lk
           ELSE pc' = "lk_timeline" /\ lk' = [lk EXCEPT !.df = rows]
    /\ UNCHANGED <<uploaded, dashboard_vars>>

\* the strict overlap test in place of the inclusive one
ocupacion_strict(frame, tiempo_actual, h) ==
    SelectSeq(frame, LAMBDA r : r.arrival < tiempo_actual + h
                                /\ r.departure > tiempo_actual)

\* lines 31-32: activos, the rows ocupacion counts
ocupacion(frame, tiempo_actual, h) ==
    SelectSeq(frame, LAMBDA r : r.arrival <= tiempo_actual + h
                                /\ r.departure >= tiempo_actual)

\* line 33: activos.groupby("Muelle")["SHIP"].count()
count_by_muelle(activos) ==
    LET keys == {r.Muelle : r \in Range(activos)} \ {None}
    IN  [b \in keys |->
           Len(SelectSeq(activos, LAMBDA r : r.Muelle = b /\ r.SHIP # None))]

\* Series.min() and Series.max() of a column of timestamps
min_of(S) == CHOOSE x \in S : \A y \in S : x <= y
max_of(S) == CHOOSE x \in S : \A y \in S : x >= y

\* line 37: pd.date_range(start, end, freq): start, start + iv, ... up to end
date_range(start, end, iv) ==
    IF end < start THEN <<>>
    ELSE [j \in 1 .. ((end - start) \div iv + 1) |-> start + (j - 1) * iv]

\* line 37: an empty sheet has no minimum and date_range raises
LookaheadTimeline ==
    /\ pc = "lk_timeline"
    /\ IF lk.df = <<>>
       THEN pc' = "lk_crashed" /\ UNCHANGED lk
       ELSE /\ lk' = [lk EXCEPT !.timeline =
                         date_range(min_of({r.arrival : r \in Range(lk.df)}),
                                    max_of({r.departure : r \in Range(lk.df)}),
                                    lk.intervalo_h)]
            /\ pc' = "lk_loop"
    /\ UNCHANGED <<uploaded, dashboard_vars>>

\* lines 41-44: one turn of the loop over the timeline
Ocupacion ==
    /\ pc = "lk_loop"
    /\ lk.k < Len(lk.timeline)
    /\ LET t == lk.timeline[lk.k + 1]
           activos == ocupacion(lk.df, t, lk.lookahead_h)
       IN  lk' = [lk EXCEPT !.k = lk.k + 1,
                            !.t = t,
                            !.fin_ventana = t + lk.lookahead_h,
                            !.activos = activos,
                            !.resultados = Append(lk.resultados, count_by_muelle(activos))]
    /\ UNCHANGED <<pc, uploaded, dashboard_vars>>

\* lines 46-62: the table and the chart, after the last turn
LookaheadReport ==
    /\ pc = "lk_loop"
    /\ lk.k = Len(lk.timeline)
    /\ pc' = "lk_done"
    /\ UNCHANGED <<uploaded, dashboard_vars, lk>>

NextLookahead ==
    \/ LookaheadRead
    \/ LookaheadTimeline
    \/ Ocupacion
    \/ LookaheadReport

\* the sheets of the standalone script: text cells at every instant, two berths
LookaheadHeaders == LookaheadColumns \cup {"DWT"}
LookaheadFiles ==
    {NoFile, Unreadable, File(FullHeaders, <<PlainRow>>)}
    \cup {File(LookaheadHeaders, rows) :
            rows \in Sheets(Rows({TxtCell(d) : d \in Days} \X {TxtCell(t) : t \in TimesOfDay},
                                 {"V1"}, {"A", "B"}, {1}),
                            MaxRows)}
    \cup {File(LookaheadHeaders, <<r>>) :
            r \in Rows({<<NaCell, TxtCell(0)>>, <<TxtCell(0), TxtCell(0)>>},
                       {"V1", None}, {"A", None}, {1})}

InitLookahead ==
    /\ pc = "lk_read"
    /\ uploaded \in LookaheadFiles
    /\ df = [columns |-> {}, rows |-> <<>>]
    /\ current_dt = 0
    /\ end_dt = 0
    /\ cols = NoCols
    /\ proc = <<>>
    /\ proc_valid = <<>>
    /\ arriving = <<>>
    /\ departing = <<>>
    /\ in_port = <<>>
    /\ kpi = NoKpi
    /\ occ = <<>>
    /\ initial_dwt = 0
    /\ dwt_timeline = <<>>
    /\ dwt_df = <<>>
    /\ dwt_plot = <<>>
    /\ defined = {}
    /\ stopped_at = ""
    /\ \E h \in 0 .. MaxLookahead, iv \in 1 .. MaxInterval : lk = NoLookahead(h, iv)
SpecLookahead == InitLookahead /\ [][NextLookahead]_vars

\* ---------------------------------------------------------------------
\* Properties
\* ---------------------------------------------------------------------
\* the row labels of a frame
Idx(frame) == {frame[k].idx : k \in DOMAIN frame}
\* a frame is a selection of rows of proc, each at most once
IsSelection(frame) ==
    /\ \A k \in DOMAIN frame : frame[k] = proc[frame[k].idx]
    /\ Cardinality(Idx(frame)) = Len(frame)
\* the valid records: both timestamps parsed
Valid(i) == proc[i].arrival_dt # NaT /\ proc[i].departure_dt # NaT
ValidRows == {i \in DOMAIN proc : Valid(i)}
\* a deadweight with the missing value counted as 0
Dwt0(i) == IF proc[i].DWT = NaN THEN 0 ELSE proc[i].DWT
RECURSIVE SumOver(_)
SumOver(I) ==
    IF I = {} THEN 0
    ELSE LET i == CHOOSE x \in I : TRUE IN Dwt0(i) + SumOver(I \ {i})

\* C1: the In-Port subset is exactly the valid records with arrival < end and
\* departure > start; a record with arrival = end or departure = start is not
\* In-Port; nothing else (such as departure >= arrival) is required.
C1_InPortExact ==
    "in_port" \in defined =>
        /\ IsSelection(in_port)
        /\ Idx(in_port) = {i \in ValidRows : /\ proc[i].arrival_dt < end_dt
                                             /\ proc[i].departure_dt > current_dt}
        /\ \A i \in ValidRows :
             (proc[i].arrival_dt = end_dt \/ proc[i].departure_dt = current_dt)
                 => i \notin Idx(in_port)

\* a run in which a record departing before it arrived is In-Port, and a record
\* arriving exactly at the end and one departing exactly at the start are not
C1_Witness ==
    /\ pc = "done"
    /\ end_dt > current_dt
    /\ \E i \in Idx(in_port) : proc[i].departure_dt < proc[i].arrival_dt
    /\ \E i \in ValidRows \ Idx(in_port) : proc[i].arrival_dt = end_dt
    /\ \E i \in ValidRows \ Idx(in_port) : proc[i].departure_dt = current_dt

\* C2: Arriving is exactly the valid records with start <= arrival <= end,
\* Departing those with start <= departure <= end, both bounds inclusive.
C2_ArrivingDepartingExact ==
    "arriving" \in defined =>
        /\ IsSelection(arriving)
        /\ IsSelection(departing)
        /\ Idx(arriving) = {i \in ValidRows : /\ current_dt <= proc[i].arrival_dt
                                              /\ proc[i].arrival_dt <= end_dt}
        /\ Idx(departing) = {i \in ValidRows : /\ current_dt <= proc[i].departure_dt
                                               /\ proc[i].departure_dt <= end_dt}

\* a run with a record in all three subsets, a record departing exactly at the
\* start that is Departing but not In-Port, and a record arriving exactly at the end
C2_Witness ==
    /\ pc = "done"
    /\ Idx(arriving) \cap Idx(departing) \cap Idx(in_port) # {}
    /\ \E i \in Idx(departing) \ Idx(in_port) : proc[i].departure_dt = current_dt
    /\ \E i \in Idx(arriving) : proc[i].arrival_dt = end_dt

\* a date cell and a time cell that yield "no value": one of them is missing
\* or is a text that does not parse
RawNoValue(date_val, time_val) ==
    date_val.kind \in {"na", "bad"} \/ time_val.kind \in {"na", "bad"}
ArrNoValue(row) == RawNoValue(row.arr_day, row.arr_time)
DepNoValue(row) == RawNoValue(row.dep_day, row.dep_time)
\* the rows of the sheet whose arrival or departure yields "no value"
NoValueRows == {i \in DOMAIN df.rows : ArrNoValue(df.rows[i]) \/ DepNoValue(df.rows[i])}

\* C3: a row whose arrival or departure yields "no value" is parsed to "no
\* value", is in none of Arriving, Departing, In-Port, adds nothing to
\* initial_dwt and has no event in the deadweight series.
C3_NoValueRowsExcluded ==
    /\ "proc" \in defined =>
          \A i \in DOMAIN df.rows :
              /\ ArrNoValue(df.rows[i]) => proc[i].arrival_dt = NaT
              /\ DepNoValue(df.rows[i]) => proc[i].departure_dt = NaT
    /\ "in_port" \in defined =>
          NoValueRows \cap (Idx(arriving) \cup Idx(departing) \cup Idx(in_port)) = {}
    /\ "initial_dwt" \in defined =>
          /\ \A k \in DOMAIN dwt_timeline : dwt_timeline[k].row \notin NoValueRows
          /\ \A k \in DOMAIN dwt_df : dwt_df[k].row \notin NoValueRows
          /\ initial_dwt =
                SumOver({i \in DOMAIN proc \ NoValueRows :
                            /\ proc[i].arrival_dt < current_dt
                            /\ proc[i].departure_dt > current_dt})

\* a finished run over a sheet with a row whose arrival time is an unparseable
\* text and whose departure lies in the window, next to a row already in port
\* at the start
C3_Witness ==
    /\ pc = "done"
    /\ \E i \in NoValueRows :
          /\ df.rows[i].arr_time.kind = "bad"
          /\ ~DepNoValue(df.rows[i])
          /\ current_dt <= proc[i].departure_dt /\ proc[i].departure_dt <= end_dt
    /\ initial_dwt > 0
    /\ dwt_timeline # <<>>

\* the conditions of a run, read off its inputs
HasField(names) == Range(names) \cap uploaded.columns # {}
AllCritical ==
    /\ HasField(ShipNames)
    /\ HasField(ArrDayNames) /\ HasField(ArrTimeNames)
    /\ HasField(DepDayNames) /\ HasField(DepTimeNames)
SomeRowParses ==
    \E i \in DOMAIN uploaded.rows :
        ~ArrNoValue(uploaded.rows[i]) /\ ~DepNoValue(uploaded.rows[i])
\* the first check of the script that the inputs fail, once the window is chosen
FirstFailure ==
    IF ~uploaded.present THEN "no_file"
    ELSE IF ~uploaded.readable THEN "read_error"
    ELSE IF end_dt <= current_dt THEN "bad_window"
    ELSE IF ~AllCritical THEN "missing_columns"
    ELSE IF ~SomeRowParses THEN "no_valid_data"
    ELSE ""
Outputs == {"arriving", "departing", "in_port", "kpi", "occ", "initial_dwt",
            "dwt_timeline", "dwt_plot"}

C4_State ==
    /\ defined \cap Outputs # {} =>
          /\ uploaded.present /\ uploaded.readable
          /\ end_dt > current_dt
          /\ AllCritical
          /\ SomeRowParses
    /\ pc = "stopped" =>
          /\ defined \cap Outputs = {}
          /\ stopped_at # ""
          /\ stopped_at = FirstFailure
    /\ pc \in {"classify", "kpis", "berth", "dwt", "done"} => FirstFailure = ""

\* C4: the subsets, the per-berth table and the series are computed only if the
\* file was read, end > start, the five critical fields matched a column and
\* some row has both timestamps; otherwise the run stops at the first failing
\* check with nothing computed, and a stopped run stays stopped.
C4_HaltsBeforeSubsets ==
    /\ []C4_State
    /\ [][pc = "stopped" => (pc' = "stopped" /\ defined' = defined)]_vars

\* a run stopped by the last of the checks: the sheet was read, the window and
\* the columns are good, and no row has both timestamps
C4_Witness ==
    /\ pc = "stopped"
    /\ stopped_at = "no_valid_data"
    /\ df.rows # <<>>
    /\ end_dt > current_dt

\* the events of one type in a list of events
OfType(events, type) == {k \in DOMAIN events : events[k].Type = type}
\* the change a vessel's deadweight makes at an event of the given type
Change(i, type) == IF type = "Arrival" THEN Dwt0(i) ELSE -Dwt0(i)

\* C5: the series starts at (window start, initial_dwt), its timestamps never
\* decrease, and after every event its value is the previous value plus the
\* vessel's deadweight for an Arrival and minus it for a Departure.
C5_SeriesConsistent ==
    "dwt_plot" \in defined =>
        /\ dwt_plot[1].Date = current_dt
        /\ dwt_plot[1].DWT_in_Port = initial_dwt
        /\ \A k \in 1 .. (Len(dwt_plot) - 1) : dwt_plot[k].Date <= dwt_plot[k + 1].Date
        /\ Len(dwt_df) = Len(dwt_timeline)
        /\ Range(dwt_df) = Range(dwt_timeline)
        /\ dwt_timeline # <<>> =>
              /\ Len(dwt_plot) = Len(dwt_df) + 1
              /\ \A k \in DOMAIN dwt_df :
                    /\ dwt_plot[k + 1].Date = dwt_df[k].Date
                    /\ dwt_plot[k + 1].Type = dwt_df[k].Type
                    /\ dwt_plot[k + 1].DWT_in_Port =
                          dwt_plot[k].DWT_in_Port + Change(dwt_df[k].row, dwt_df[k].Type)

\* a series over three or more events, arrivals and departures, two of them at
\* the same instant, starting from vessels already in port
C5_Witness ==
    /\ pc = "done"
    /\ Len(dwt_df) >= 3
    /\ OfType(dwt_df, "Arrival") # {} /\ OfType(dwt_df, "Departure") # {}
    /\ \E k \in 1 .. (Len(dwt_df) - 1) : dwt_df[k].Date = dwt_df[k + 1].Date
    /\ \E k \in DOMAIN dwt_df : dwt_df[k].Type = "Departure" /\ dwt_df[k].DWT > 0
    /\ initial_dwt > 0

\* C6 as stated: every valid record, with or without a deadweight, has an
\* Arrival event if it is Arriving and a Departure event if it is Departing, so
\* that there are |Arriving| Arrival events and |Departing| Departure events.
C6_EveryRecordHasEvents ==
    "dwt_timeline" \in defined =>
        /\ Cardinality(OfType(dwt_timeline, "Arrival")) = Len(arriving)
        /\ Cardinality(OfType(dwt_timeline, "Departure")) = Len(departing)

\* the records of a subset that carry a deadweight
WithDwt(frame) == {i \in Idx(frame) : proc[i].DWT # NaN}

\* C6 as amended: the records with a deadweight (0 included), and only they,
\* have an Arrival event at their arrival if Arriving and a Departure event at
\* their departure if Departing, each carrying the record's deadweight.
C6_RecordsWithDwtHaveEvents ==
    "dwt_timeline" \in defined =>
        /\ Cardinality(OfType(dwt_timeline, "Arrival")) = Cardinality(WithDwt(arriving))
        /\ Cardinality(OfType(dwt_timeline, "Departure")) = Cardinality(WithDwt(departing))
        /\ {dwt_timeline[k].row : k \in OfType(dwt_timeline, "Arrival")} = WithDwt(arriving)
        /\ {dwt_timeline[k].row : k \in OfType(dwt_timeline, "Departure")} = WithDwt(departing)
        /\ \A k \in DOMAIN dwt_timeline :
              LET ev == dwt_timeline[k]
              IN  /\ ev.DWT = proc[ev.row].DWT
                  /\ ev.Date = IF ev.Type = "Arrival" THEN proc[ev.row].arrival_dt
                               ELSE proc[ev.row].departure_dt

\* a run with an Arriving record without deadweight (no event), and a record
\* of deadweight 0 that both arrives and departs in the window (two events)
C6_Witness ==
    /\ pc = "done"
    /\ Idx(arriving) \ WithDwt(arriving) # {}
    /\ \E i \in WithDwt(arriving) \cap WithDwt(departing) :
          /\ proc[i].DWT = 0
          /\ \E k \in OfType(dwt_timeline, "Arrival") : dwt_timeline[k].row = i
          /\ \E k \in OfType(dwt_timeline, "Departure") : dwt_timeline[k].row = i

\* the flat series
FlatSeries ==
    /\ "dwt_plot" \in defined
    /\ Len(dwt_plot) = 2
    /\ dwt_plot[1].Date = current_dt /\ dwt_plot[1].DWT_in_Port = initial_dwt
    /\ dwt_plot[2].Date = end_dt /\ dwt_plot[2].DWT_in_Port = initial_dwt

\* C7 as stated: with no event in the window the series is the two points
\* (start, initial_dwt), (end, initial_dwt), whatever initial_dwt is.
C7_FlatSeriesAlways ==
    (pc = "done" /\ dwt_timeline = <<>>) => FlatSeries

\* C7 as amended: with no event in the window the series is those two points
\* when initial_dwt > 0, and no series is emitted when initial_dwt <= 0.
C7_FlatSeriesIfPositive ==
    (pc = "done" /\ dwt_timeline = <<>>) =>
        /\ initial_dwt > 0 => FlatSeries
        /\ initial_dwt <= 0 => "dwt_plot" \notin defined

\* a run with vessels in port at the start, no event, and the flat series; an
\* Arriving record without deadweight leaves the event list empty
C7_Witness ==
    /\ pc = "done"
    /\ dwt_timeline = <<>>
    /\ initial_dwt > 0
    /\ FlatSeries
    /\ arriving # <<>>

\* C8: initial_dwt is the sum of the deadweights (missing as 0) of the valid
\* records with arrival < start and departure > start, and of no other.
C8_InitialDwtExact ==
    "initial_dwt" \in defined =>
        initial_dwt = SumOver({i \in ValidRows : /\ proc[i].arrival_dt < current_dt
                                                 /\ proc[i].departure_dt > current_dt})

\* a run where a vessel with deadweight arrives exactly at the start and stays,
\* and is not counted, while another vessel is
C8_Witness ==
    /\ pc = "done"
    /\ initial_dwt > 0
    /\ \E i \in ValidRows : /\ proc[i].arrival_dt = current_dt
                            /\ proc[i].departure_dt > current_dt
                            /\ Dwt0(i) > 0
                            /\ initial_dwt < Dwt0(i) + 1

\* C9: for every berth b the summary's vessel count is the number of In-Port
\* records at b and its total deadweight is their sum, so that the counts add
\* up to the size of In-Port.
AtBerth(b) == {i \in Idx(in_port) : proc[i].Berth = b}
RECURSIVE SumVessels(_)
SumVessels(B) ==
    IF B = {} THEN 0
    ELSE LET b == CHOOSE x \in B : TRUE IN occ[b].Vessels + SumVessels(B \ {b})
C9_PerBerthSummary ==
    "occ" \in defined =>
        /\ \A b \in DOMAIN occ :
              /\ occ[b].Vessels = Cardinality(AtBerth(b))
              /\ occ[b].TotalDWT = SumOver(AtBerth(b))
        /\ SumVessels(DOMAIN occ) = Len(in_port)

\* the integer part of a sum of deadweights: the whole number n nearest to 0
\* with |n| <= |sum|
MaxSum == MaxRows * MaxDwt
IntegerPart(sum) ==
    CHOOSE n \in (-MaxSum) .. MaxSum :
        /\ sum >= 0 => (n >= 0 /\ n * DwtUnit <= sum /\ sum < (n + 1) * DwtUnit)
        /\ sum < 0 => (n <= 0 /\ n * DwtUnit >= sum /\ sum > (n - 1) * DwtUnit)

\* C10 as stated: each subset's count is its size and its reported total is
\* the sum of its deadweights, missing counted as 0.
C10_TotalsAreSums ==
    "kpi" \in defined =>
        /\ kpi.arrivals = Len(arriving)
        /\ kpi.in_port = Len(in_port)
        /\ kpi.departures = Len(departing)
        /\ kpi.dwt_arr * DwtUnit = SumOver(Idx(arriving))
        /\ kpi.dwt_port * DwtUnit = SumOver(Idx(in_port))
        /\ kpi.dwt_dep * DwtUnit = SumOver(Idx(departing))

\* C10 as amended: the reported total is the integer part of that sum.
C10_TotalsAreIntegerParts ==
    "kpi" \in defined =>
        /\ kpi.arrivals = Len(arriving)
        /\ kpi.in_port = Len(in_port)
        /\ kpi.departures = Len(departing)
        /\ kpi.dwt_arr = IntegerPart(SumOver(Idx(arriving)))
        /\ kpi.dwt_port = IntegerPart(SumOver(Idx(in_port)))
        /\ kpi.dwt_dep = IntegerPart(SumOver(Idx(departing)))

\* a run with a subset whose sum is not whole and a non-empty subset without
\* any deadweight
C10_Witness ==
    /\ pc = "done"
    /\ \E f \in {arriving, in_port, departing} :
          SumOver(Idx(f)) > 0 /\ SumOver(Idx(f)) % DwtUnit # 0
    /\ \E f \in {arriving, in_port, departing} : f # <<>> /\ WithDwt(f) = {}

\* the records of the standalone script as the dashboard holds them
AsProcValid(frame) ==
    [k \in DOMAIN frame |->
        [idx |-> frame[k].idx, SHIP |-> frame[k].SHIP,
         arrival_dt |-> frame[k].arrival, departure_dt |-> frame[k].departure,
         Berth |-> frame[k].Muelle, DWT |-> NaN]]
\* the In-Port set the dashboard's classifier yields for start = t, end = t + h
InPortAt == Idx(in_port_of(AsProcValid(lk.df), lk.t, lk.t + lk.lookahead_h))
\* the records that touch the window only at an end of it
TouchingAt ==
    {r.idx : r \in {x \in Range(lk.df) :
                      \/ x.arrival = lk.t + lk.lookahead_h /\ x.departure >= lk.t
                      \/ x.departure = lk.t /\ x.arrival <= lk.t + lk.lookahead_h}}
\* ocupacion has been called
Scanned == pc \in {"lk_loop", "lk_done"} /\ lk.k > 0

\* C11 as stated: the records ocupacion(df, t, h) counts as active are the
\* In-Port set of the dashboard for the window start = t, end = t + h.
C11_SameAsInPort ==
    Scanned => Idx(lk.activos) = InPortAt

\* C11 as amended: they are that In-Port set together with the records whose
\* arrival equals t + h or whose departure equals t.
C11_InPortPlusTouching ==
    Scanned =>
        /\ Idx(lk.activos) = InPortAt \cup TouchingAt
        /\ InPortAt \cap TouchingAt = {}
        /\ lk.fin_ventana = lk.t + lk.lookahead_h
        /\ \A k \in DOMAIN lk.activos : lk.activos[k] = lk.df[lk.activos[k].idx]

\* a call in which one record is active and In-Port and another is active only
\* because it arrives exactly at t + h or departs exactly at t
C11_Witness ==
    /\ Scanned
    /\ InPortAt # {}
    /\ \E i \in Idx(lk.activos) \ InPortAt : lk.df[i].arrival = lk.fin_ventana
    /\ lk.lookahead_h > 0

\* C12: with every deadweight >= 0 and every valid record arriving no later
\* than it departs, no value of the cumulative series is below 0, whatever the
\* window and the order of events at equal timestamps.
C12_SeriesNonNegative ==
    ("dwt_plot" \in defined
        /\ \A i \in ValidRows : Dwt0(i) >= 0 /\ proc[i].arrival_dt <= proc[i].departure_dt)
    => \A k \in DOMAIN dwt_plot : dwt_plot[k].DWT_in_Port >= 0

=============================================================================
